---- MODULE Spec2Model ----
(***************************************************************************)
(* Model of simple_jit_calculator (src/main.rs): the tokenizer and code    *)
(* generator of jit, the executable-memory handling of run, and the        *)
(* x86_64 instructions the generated function consists of, executed byte   *)
(* by byte on a 64-bit register file.                                      *)
(*                                                                         *)
(* A 64-bit value is a little-endian sequence of 8 bytes (0..255), so all  *)
(* arithmetic keeps its width: carries out of byte 8 are dropped.          *)
(***************************************************************************)
EXTENDS Integers, Sequences, FiniteSets, TLC

\* ------------------------------------------------------------------ bounds
\* longest program string enumerated in full over the whole alphabet
MaxLen == 3
\* longest program string of the two-call processes
MaxPairLen == 1
\* longest program string of the whitespace-variant pairs
MaxWsLen == 3

\* ------------------------------------------------- 64-bit words (8 bytes)
Byte == 0..255
Zero64 == [k \in 1..8 |-> 0]
Ones64 == [k \in 1..8 |-> 255]
One64 == [k \in 1..8 |-> IF k = 1 THEN 1 ELSE 0]

\* the three low bytes of a non-negative integer below 2^24, zero-extended
Word(n) == [k \in 1..8 |-> IF k = 1 THEN n % 256
                           ELSE IF k = 2 THEN (n \div 256) % 256
                           ELSE IF k = 3 THEN (n \div 65536) % 256 ELSE 0]

IsNeg(v) == v[Len(v)] >= 128

RECURSIVE CarryIn(_, _, _)
\* carry into byte k of a + b
CarryIn(a, b, k) == IF k = 1 THEN 0
                    ELSE (a[k-1] + b[k-1] + CarryIn(a, b, k-1)) \div 256

\* a + b on words of equal length, carry out of the top byte dropped
AddW(a, b) == [k \in 1..Len(a) |-> (a[k] + b[k] + CarryIn(a, b, k)) % 256]
NotW(a) == [k \in 1..Len(a) |-> 255 - a[k]]
NegW(a) == AddW(NotW(a), [k \in 1..Len(a) |-> IF k = 1 THEN 1 ELSE 0])
AbsW(a) == IF IsNeg(a) THEN NegW(a) ELSE a

RECURSIVE XorBits(_, _, _)
\* bitwise exclusive or of the n low bits of x and y
XorBits(x, y, n) == IF n = 0 THEN 0
                    ELSE ((x + y) % 2) + 2 * XorBits(x \div 2, y \div 2, n - 1)
XorW(a, b) == [k \in 1..Len(a) |-> XorBits(a[k], b[k], 8)]

RECURSIVE MulCarry(_, _, _)
\* carry into byte k of a * m, for a multiplier 0 <= m <= 128
MulCarry(a, m, k) == IF k = 1 THEN 0
                     ELSE (a[k-1] * m + MulCarry(a, m, k-1)) \div 256
MulSmall(a, m) == [k \in 1..Len(a) |-> (a[k] * m + MulCarry(a, m, k)) % 256]

\* sign extension of an immediate given as its little-endian bytes
SignExt(imm) == [k \in 1..8 |-> IF k <= Len(imm) THEN imm[k]
                                ELSE IF IsNeg(imm) THEN 255 ELSE 0]
\* the signed value of an 8-bit immediate
Imm8Val(b) == IF b >= 128 THEN b - 256 ELSE b

\* a * (sign-extended imm8), truncated to 64 bits
MulImm8(a, b) == IF Imm8Val(b) >= 0 THEN MulSmall(a, Imm8Val(b))
                 ELSE NegW(MulSmall(a, 0 - Imm8Val(b)))

\* the signed value of a word that fits in 24 bits (sign-extended above),
\* and OutOfRange for every other word
OutOfRange == 256 * 65536
ToInt(v) ==
  IF v[3] < 128 /\ \A k \in 4..8 : v[k] = 0
    THEN v[1] + 256 * v[2] + 65536 * v[3]
  ELSE IF v[3] >= 128 /\ \A k \in 4..8 : v[k] = 255
    THEN (v[1] + 256 * v[2] + 65536 * v[3]) - 256 * 65536
  ELSE OutOfRange

\* --------------------------------------------- the x86_64 register file
\* register numbers as the ModRM/REX encoding gives them
RAX == 0
RCX == 1
RDX == 2
RSP == 4
R8 == 8
RegNum == 0..15

RECURSIVE RemFrom(_, _, _)
\* remainder of the bytes k..Len(a) of the unsigned word a, divided by d
RemFrom(a, d, k) == IF k > Len(a) THEN 0
                    ELSE (RemFrom(a, d, k + 1) * 256 + a[k]) % d
\* unsigned a \div d for a divisor 0 < d < 2^23
QuotW(a, d) == [k \in 1..Len(a) |-> (RemFrom(a, d, k + 1) * 256 + a[k]) \div d]

\* the magnitude of a divisor is handled when it is below 2^23
SmallMag(m) == m[3] < 128 /\ \A k \in 4..8 : m[k] = 0
MagInt(m) == m[1] + 256 * m[2] + 65536 * m[3]

\* the magnitude of the quotient of |rdx:rax| by |r|, 16 bytes, rounded
\* toward zero as idiv does
IDivQuotMag(hi, lo, r) == QuotW(AbsW(lo \o hi), MagInt(AbsW(r)))
IDivRemMag(hi, lo, r) == Word(RemFrom(AbsW(lo \o hi), MagInt(AbsW(r)), 1))

\* does the signed quotient fit the 64-bit destination
QuotFits(q, negative) ==
  /\ \A k \in 9..16 : q[k] = 0
  /\ \/ q[8] < 128
     \/ negative /\ q[8] = 128 /\ \A k \in 1..7 : q[k] = 0

\* a division that rounds the quotient toward minus infinity, as an
\* arithmetic shift would
IDivFloor(hi, lo, r) ==
  IF r = Zero64 THEN [fault |-> "divide error"]
  ELSE IF ~SmallMag(AbsW(r)) THEN [fault |-> "unmodelled divisor"]
  ELSE LET q == IDivQuotMag(hi, lo, r)
           m == IDivRemMag(hi, lo, r)
           neg == IsNeg(hi) # IsNeg(r)
           q8 == SubSeq(q, 1, 8)
       IN IF ~QuotFits(q, neg) THEN [fault |-> "divide error"]
          ELSE [fault |-> "none",
                rax |-> IF ~neg THEN q8
                        ELSE IF m = Zero64 THEN NegW(q8)
                        ELSE NegW(AddW(q8, One64)),
                rdx |-> IF IsNeg(hi) THEN NegW(m) ELSE m]

\* idiv r/m64: signed divide rdx:rax by r; quotient to rax, remainder to
\* rdx; #DE when r is zero or the quotient does not fit
IDiv(hi, lo, r) ==
  IF r = Zero64 THEN [fault |-> "divide error"]
  ELSE IF ~SmallMag(AbsW(r)) THEN [fault |-> "unmodelled divisor"]
  ELSE LET q == IDivQuotMag(hi, lo, r)
           neg == IsNeg(hi) # IsNeg(r)
       IN IF ~QuotFits(q, neg) THEN [fault |-> "divide error"]
          ELSE [fault |-> "none",
                rax |-> LET q8 == SubSeq(q, 1, 8) IN IF neg THEN NegW(q8) ELSE q8,
                rdx |-> LET m == IDivRemMag(hi, lo, r)
                        IN IF IsNeg(hi) THEN NegW(m) ELSE m]

\* ------------------------------------------------- instruction decoding
Invalid == [op |-> "invalid", len |-> 1, dst |-> 0, src |-> 0, imm |-> <<>>]

\* the instruction starting at byte offset ip (1-based) of mem
Decode(mem, ip) ==
  IF ip > Len(mem) THEN Invalid
  ELSE
  LET b0 == mem[ip]
      rex == b0 >= \h40 /\ b0 <= \h4F
      W == rex /\ (b0 \div 8) % 2 = 1
      R == IF rex THEN (b0 \div 4) % 2 ELSE 0
      B == IF rex THEN b0 % 2 ELSE 0
      o == IF rex THEN ip + 1 ELSE ip
      have(n) == o + n <= Len(mem)
      opc == IF have(0) THEN mem[o] ELSE 0 - 1
      modrm == IF have(1) THEN mem[o + 1] ELSE 0
      direct == have(1) /\ modrm \div 64 = 3
      reg == (8 * R) + ((modrm \div 8) % 8)
      rm == (8 * B) + (modrm % 8)
      ext == (modrm \div 8) % 8
      n == o - ip
      I(op, len, dst, src, imm) ==
         [op |-> op, len |-> n + len, dst |-> dst, src |-> src, imm |-> imm]
  IN  IF opc = \hC3 /\ ~rex THEN I("ret", 1, RSP, RSP, <<>>)
      ELSE IF ~W THEN Invalid
      ELSE IF opc = \h99 THEN I("cqo", 1, RDX, RAX, <<>>)
      ELSE IF opc \in {\h31, \h89, \hFF, \h6B, \hC7, \hF7} /\ have(1) /\ ~direct
        THEN I("memory", 2, rm, rm, <<>>)
      ELSE IF opc = \h31 /\ direct THEN I("xor", 2, rm, reg, <<>>)
      ELSE IF opc = \h89 /\ direct THEN I("mov", 2, rm, reg, <<>>)
      ELSE IF opc = \hFF /\ direct /\ ext = 0 THEN I("inc", 2, rm, rm, <<>>)
      ELSE IF opc = \hFF /\ direct /\ ext = 1 THEN I("dec", 2, rm, rm, <<>>)
      ELSE IF opc = \h6B /\ direct /\ have(2)
        THEN I("imul", 3, reg, rm, <<mem[o + 2]>>)
      ELSE IF opc = \hC7 /\ direct /\ ext = 0 /\ have(5)
        THEN I("movi", 6, rm, rm, SubSeq(mem, o + 2, o + 5))
      ELSE IF opc = \hF7 /\ direct /\ ext = 7 THEN I("idiv", 2, RAX, rm, <<>>)
      ELSE Invalid

\* the general-purpose registers an instruction writes
Writes(ins) ==
  IF ins.op = "idiv" THEN {RAX, RDX}
  ELSE IF ins.op \in {"invalid", "memory"} THEN {}
  ELSE {ins.dst}

\* the register file after a register-to-register instruction
Execute(ins, r) ==
  IF ins.op = "xor" THEN [r EXCEPT ![ins.dst] = XorW(r[ins.dst], r[ins.src])]
  ELSE IF ins.op = "mov" THEN [r EXCEPT ![ins.dst] = r[ins.src]]
  ELSE IF ins.op = "inc" THEN [r EXCEPT ![ins.dst] = AddW(r[ins.dst], One64)]
  ELSE IF ins.op = "dec" THEN [r EXCEPT ![ins.dst] = AddW(r[ins.dst], Ones64)]
  ELSE IF ins.op = "imul"
    THEN [r EXCEPT ![ins.dst] = MulImm8(r[ins.src], ins.imm[1])]
  ELSE IF ins.op = "movi" THEN [r EXCEPT ![ins.dst] = SignExt(ins.imm)]
  ELSE IF ins.op = "cqo"
    THEN [r EXCEPT ![RDX] = IF IsNeg(r[RAX]) THEN Ones64 ELSE Zero64]
  ELSE IF ins.op = "idiv"
    THEN LET d == IDiv(r[RDX], r[RAX], r[ins.src])
         IN [r EXCEPT ![RAX] = d.rax, ![RDX] = d.rdx]
  ELSE IF ins.op = "ret" THEN [r EXCEPT ![RSP] = AddW(r[RSP], Word(8))]
  ELSE r

\* does executing ins on r raise a fault
Faults(ins, r) ==
  \/ ins.op \in {"invalid", "memory"}
  \/ ins.op = "idiv" /\ IDiv(r[RDX], r[RAX], r[ins.src]).fault # "none"

\* ------------------------------------------------------ program strings
OpChars == {"+", "-", "*", "/"}
Blank == {" ", "\n"}
Chars == OpChars \cup Blank \cup {"\t", "\r"}

Strs(S, n) == UNION {[1..m -> S] : m \in 0..n}
Rep(c, n) == [k \in 1..n |-> c]
Strip(p) == SelectSeq(p, LAMBDA c : c \notin Blank)

\* the program of main, the examples of the file header and of the test
MainProgram == <<"+", " ", "+", " ", "*", " ", "-", " ", "/">>
TestPrograms == << <<"+">>, <<"+", "+">>, <<"+", "+", "/">>, <<"-">>,
                   <<"-", "-", "*">>, <<"*">>, <<"/">>,
                   <<"+", "+">> \o Rep("*", 7),
                   <<"-", "-", "*", "*", "+", "+">> >>
DocPrograms == {MainProgram, <<"+", "+", "*">>, <<"+", "+", "*", "-", "/">>,
                <<"-", "-", "-", "/">>, <<"-", "-", "-", "/", "/">>}
                \cup {TestPrograms[k] : k \in 1..Len(TestPrograms)}
\* programs whose accumulator leaves the range of small integers
LongPrograms == {<<"+">> \o Rep("*", 63) \o <<"/">>,
                 <<"+">> \o Rep("*", 63) \o <<"-", "/">>,
                 <<"-">> \o Rep("*", 63) \o <<"/", "+", "/">>,
                 <<"-">> \o Rep("*", 62) \o <<"+", "/", "-">>,
                 <<"+">> \o Rep("*", 64) \o <<"-", "/">>}

\* the register contents the caller leaves behind when it calls f
Garbage == {Ones64, [k \in 1..8 |-> IF k = 8 THEN 128 ELSE 3]}

\* ---------------------------------------------------------------- state
VARIABLES
  queue,         \* program strings the process still passes to jit
  cycle,         \* number of run(jit(p)) cycles started
  program,       \* jit: the argument
  pc,            \* position of the process
  i,             \* jit: index of the next character of program.chars()
  tokens,        \* jit: Vec<Op>
  machine_code,  \* jit: Vec<u8>, then the argument of run
  j,             \* jit: index of the next token of the compile loop
  regions,       \* every region::alloc'ed region, in allocation order
  memory,        \* run: index of its Allocation in regions, 0 when none
  regs,          \* register file during the native call
  entry,         \* register file at the entry of the native call
  rip,           \* offset (1-based) of the next instruction
  written,       \* registers written since the entry
  trail,         \* offsets of the instructions executed, in order
  accTrace,      \* rcx at each template boundary reached
  outcome,       \* the panic that ended the process, if any
  results,       \* the cycles that returned: program, code, value
  allocs,        \* allocation attempts of the current cycle
  calls          \* native calls of the current cycle

vars == <<queue, cycle, program, pc, i, tokens, machine_code, j, regions,
          memory, regs, entry, rip, written, trail, accTrace, outcome,
          results, allocs, calls>>

jitVars == <<program, i, tokens, machine_code, j>>
cpuVars == <<regs, entry, rip, written, trail, accTrace>>

NoRegs == [r \in RegNum |-> Zero64]
NoOutcome == [kind |-> "none", char |-> ""]

InitRest ==
  /\ cycle = 0 /\ program = <<>> /\ pc = "idle" /\ i = 1
  /\ tokens = <<>> /\ machine_code = <<>> /\ j = 1
  /\ regions = <<>> /\ memory = 0
  /\ regs = NoRegs /\ entry = NoRegs /\ rip = 0 /\ written = {}
  /\ trail = <<>> /\ accTrace = <<>>
  /\ outcome = NoOutcome /\ results = <<>> /\ allocs = 0 /\ calls = 0

\* a process makes one call (main), the calls of the test, or two calls
Init ==
  /\ queue \in {<<p>> : p \in Strs(Chars, MaxLen) \cup DocPrograms \cup LongPrograms}
               \cup {TestPrograms}
               \cup {<<p, q>> : p \in Strs(Chars, MaxPairLen), q \in Strs(Chars, MaxPairLen)}
  /\ InitRest

\* ------------------------------------------------------------------ jit
\* the caller evaluates run(&jit(p)) for its next program
CallJit ==
  /\ pc = "idle" /\ queue # <<>>
  /\ program' = Head(queue) /\ queue' = Tail(queue)
  /\ cycle' = cycle + 1
  /\ i' = 1 /\ tokens' = <<>> /\ machine_code' = <<>> /\ j' = 1
  /\ allocs' = 0 /\ calls' = 0
  /\ pc' = "tokenize"
  /\ UNCHANGED <<regions, memory, outcome, results>>
  /\ UNCHANGED cpuVars

\* the match with the arms of '*' and '/' exchanged
OpOfSwapped(c) == IF c = "+" THEN "Plus" ELSE IF c = "-" THEN "Minus"
                  ELSE IF c = "*" THEN "Slash" ELSE "Star"
\* match c { '+' => Op::Plus, ... }
OpOf(c) == IF c = "+" THEN "Plus" ELSE IF c = "-" THEN "Minus"
           ELSE IF c = "*" THEN "Star" ELSE "Slash"
IsOpChar(c) == c \in {"+", "-", "*", "/"}
\* every whitespace character skipped, not only ' ' and '\n'
IsSkippedAnyWhitespace(c) == c \in {" ", "\n", "\t", "\r"}
IsSkipped(c) == c \in {" ", "\n"}

Panic(kind, c) ==
  /\ pc' = "aborted"
  /\ outcome' = [kind |-> kind, char |-> c]

\* one iteration of `for c in program.chars()` that pushes a token
TokenizeOp ==
  /\ pc = "tokenize" /\ i <= Len(program) /\ IsOpChar(program[i])
  /\ tokens' = Append(tokens, OpOf(program[i]))
  /\ i' = i + 1
  /\ UNCHANGED <<queue, cycle, program, pc, machine_code, j, regions, memory,
                 outcome, results, allocs, calls>>
  /\ UNCHANGED cpuVars

\* a skipped character that still pushes a token
TokenizeSkipPushes ==
  /\ pc = "tokenize" /\ i <= Len(program) /\ IsSkipped(program[i])
  /\ tokens' = Append(tokens, "Plus")
  /\ i' = i + 1
  /\ UNCHANGED <<queue, cycle, program, pc, machine_code, j, regions,
                 memory, outcome, results, allocs, calls>>
  /\ UNCHANGED cpuVars

\* ' ' | '\n' => continue
TokenizeSkip ==
  /\ pc = "tokenize" /\ i <= Len(program) /\ IsSkipped(program[i])
  /\ i' = i + 1
  /\ UNCHANGED <<queue, cycle, program, pc, tokens, machine_code, j, regions,
                 memory, outcome, results, allocs, calls>>
  /\ UNCHANGED cpuVars

\* e => panic!("Unknown character in program string: {e}")
TokenizePanic ==
  /\ pc = "tokenize" /\ i <= Len(program)
  /\ ~IsOpChar(program[i]) /\ ~IsSkipped(program[i])
  /\ Panic("UnknownChar", program[i])
  /\ UNCHANGED <<queue, cycle, regions, memory, results, allocs, calls>>
  /\ UNCHANGED jitVars
  /\ UNCHANGED cpuVars

\* the end of the loop without the assertion
AssertTokensMissing ==
  /\ pc = "tokenize" /\ i > Len(program)
  /\ pc' = "prologue" /\ UNCHANGED outcome
  /\ UNCHANGED <<queue, cycle, regions, memory, results, allocs, calls>>
  /\ UNCHANGED jitVars
  /\ UNCHANGED cpuVars

\* assert!(!tokens.is_empty())
AssertTokens ==
  /\ pc = "tokenize" /\ i > Len(program)
  /\ IF tokens = <<>> THEN Panic("AssertEmpty", "")
     ELSE pc' = "prologue" /\ UNCHANGED outcome
  /\ UNCHANGED <<queue, cycle, regions, memory, results, allocs, calls>>
  /\ UNCHANGED jitVars
  /\ UNCHANGED cpuVars

\* an epilogue that lacks the ret
EpilogueNoRet == <<\h48, \h89, \hc8>>
\* templates whose division keeps the divisor in rbx instead of r8
TemplateRbx(token) ==
  IF token = "Plus" THEN <<\h48, \hff, \hc1>>
  ELSE IF token = "Minus" THEN <<\h48, \hff, \hc9>>
  ELSE IF token = "Star" THEN <<\h48, \h6b, \hc9, \h02>>
  ELSE <<\h48, \h89, \hC8, \h48, \hc7, \hc3, \h02, \h00, \h00, \h00,
         \h48, \h99, \h48, \hF7, \hFB, \h48, \h89, \hC1>>
\* `xor %rcx, %rcx`
Prologue == <<\h48, \h31, \hc9>>
\* `mov %rcx, %rax`; `ret`
Epilogue == <<\h48, \h89, \hc8, \hc3>>
\* the bytes of `match token { ... }`
Template(token) ==
  IF token = "Plus" THEN <<\h48, \hff, \hc1>>
  ELSE IF token = "Minus" THEN <<\h48, \hff, \hc9>>
  ELSE IF token = "Star" THEN <<\h48, \h6b, \hc9, \h02>>
  ELSE <<\h48, \h89, \hC8, \h49, \hc7, \hc0, \h02, \h00, \h00, \h00,
         \h48, \h99, \h49, \hF7, \hF8, \h48, \h89, \hC1>>

\* let mut machine_code = Vec::new(); extend_from_slice(prologue)
EmitPrologue ==
  /\ pc = "prologue"
  /\ machine_code' = Prologue
  /\ j' = 1
  /\ pc' = "compile"
  /\ UNCHANGED <<queue, cycle, program, i, tokens, regions, memory, outcome,
                 results, allocs, calls>>
  /\ UNCHANGED cpuVars

\* an iteration that puts the template right after the prologue
EmitTokenFront ==
  /\ pc = "compile" /\ j <= Len(tokens)
  /\ machine_code' = SubSeq(machine_code, 1, 3) \o Template(tokens[j])
                       \o SubSeq(machine_code, 4, Len(machine_code))
  /\ j' = j + 1
  /\ UNCHANGED <<queue, cycle, program, pc, i, tokens, regions, memory,
                 outcome, results, allocs, calls>>
  /\ UNCHANGED cpuVars

\* one iteration of `for token in tokens`
EmitToken ==
  /\ pc = "compile" /\ j <= Len(tokens)
  /\ machine_code' = machine_code \o Template(tokens[j])
  /\ j' = j + 1
  /\ UNCHANGED <<queue, cycle, program, pc, i, tokens, regions, memory,
                 outcome, results, allocs, calls>>
  /\ UNCHANGED cpuVars

\* extend_from_slice(epilogue); jit returns machine_code and run is called
EmitEpilogue ==
  /\ pc = "compile" /\ j > Len(tokens)
  /\ machine_code' = machine_code \o Epilogue
  /\ pc' = "alloc"
  /\ UNCHANGED <<queue, cycle, program, i, tokens, j, regions, memory,
                 outcome, results, allocs, calls>>
  /\ UNCHANGED cpuVars

\* ------------------------------------------------------------------ run
\* region::alloc(code_len, READ_WRITE_EXECUTE) returns Ok: a fresh region
AllocOk ==
  /\ pc = "alloc"
  /\ allocs' = allocs + 1
  /\ regions' = Append(regions, [owner |-> cycle, mapped |-> TRUE,
                                 bytes |-> [k \in 1..Len(machine_code) |-> 0]])
  /\ memory' = Len(regions) + 1
  /\ pc' = "copy"
  /\ UNCHANGED <<queue, cycle, outcome, results, calls>>
  /\ UNCHANGED jitVars
  /\ UNCHANGED cpuVars

\* a failed allocation that is attempted a second time
AllocFailRetry ==
  /\ pc = "alloc"
  /\ allocs' = allocs + 1
  /\ IF allocs = 0 THEN pc' = "alloc" /\ UNCHANGED outcome
     ELSE Panic("AllocFailed", "")
  /\ UNCHANGED <<queue, cycle, regions, memory, results, calls>>
  /\ UNCHANGED jitVars
  /\ UNCHANGED cpuVars

\* region::alloc returns Err and unwrap() panics
AllocFail ==
  /\ pc = "alloc"
  /\ allocs' = allocs + 1
  /\ Panic("AllocFailed", "")
  /\ UNCHANGED <<queue, cycle, regions, memory, results, calls>>
  /\ UNCHANGED jitVars
  /\ UNCHANGED cpuVars

\* slice[..code_len].copy_from_slice(machine_code)
CopyCode ==
  /\ pc = "copy"
  /\ regions' = [regions EXCEPT ![memory].bytes =
                   [k \in 1..Len(@) |-> IF k <= Len(machine_code)
                                        THEN machine_code[k] ELSE @[k]]]
  /\ pc' = "call"
  /\ UNCHANGED <<queue, cycle, memory, outcome, results, allocs, calls>>
  /\ UNCHANGED jitVars
  /\ UNCHANGED cpuVars

\* f(): control enters the region with whatever the caller left in the
\* registers
CallNative ==
  /\ pc = "call"
  /\ \E g \in Garbage :
       /\ regs' = [r \in RegNum |-> g]
       /\ entry' = [r \in RegNum |-> g]
  /\ rip' = 1 /\ written' = {} /\ trail' = <<>> /\ accTrace' = <<>>
  /\ calls' = calls + 1
  /\ pc' = "exec"
  /\ UNCHANGED <<queue, cycle, regions, memory, outcome, results, allocs>>
  /\ UNCHANGED jitVars

RECURSIVE Boundary(_, _)
\* offset of the first byte after the prologue and the first k templates
Boundary(toks, k) == IF k = 0 THEN Len(Prologue) + 1
                     ELSE Boundary(toks, k - 1) + Len(Template(toks[k]))
Boundaries(toks) == {Boundary(toks, k) : k \in 0..Len(toks)}

\* the processor executes the instruction at rip
ExecInstr ==
  /\ pc = "exec"
  /\ LET mem == regions[memory]
         ins == Decode(mem.bytes, rip)
     IN IF ~mem.mapped \/ Faults(ins, regs)
        THEN /\ pc' = "fault"
             /\ outcome' = [kind |-> "Fault", char |-> ins.op]
             /\ UNCHANGED <<regs, rip, written, trail, accTrace>>
        ELSE /\ regs' = Execute(ins, regs)
             /\ written' = written \cup Writes(ins)
             /\ trail' = Append(trail, rip)
             /\ UNCHANGED outcome
             /\ IF ins.op = "ret"
                THEN pc' = "return" /\ rip' = 0 /\ UNCHANGED accTrace
                ELSE /\ pc' = pc
                     /\ rip' = rip + ins.len
                     /\ accTrace' = IF rip' \in Boundaries(tokens)
                                    THEN Append(accTrace, regs'[RCX])
                                    ELSE accTrace
  /\ UNCHANGED <<queue, cycle, regions, memory, entry, results, allocs, calls>>
  /\ UNCHANGED jitVars

\* a return that leaves the region mapped
RunReturnLeak ==
  /\ pc = "return"
  /\ memory' = 0
  /\ results' = Append(results, [program |-> program, code |-> machine_code,
                                 value |-> regs[RAX]])
  /\ pc' = "idle"
  /\ UNCHANGED <<queue, cycle, regions, outcome, allocs, calls>>
  /\ UNCHANGED jitVars
  /\ UNCHANGED cpuVars

\* run returns the value of f(): `memory` goes out of scope and its region
\* is unmapped, the caller receives rax
RunReturn ==
  /\ pc = "return"
  /\ regions' = [regions EXCEPT ![memory].mapped = FALSE]
  /\ memory' = 0
  /\ results' = Append(results, [program |-> program, code |-> machine_code,
                                 value |-> regs[RAX]])
  /\ pc' = "idle"
  /\ UNCHANGED <<queue, cycle, outcome, allocs, calls>>
  /\ UNCHANGED jitVars
  /\ UNCHANGED cpuVars

Next ==
  \/ CallJit
  \/ TokenizeOp
  \/ TokenizeSkip
  \/ TokenizePanic
  \/ AssertTokens
  \/ EmitPrologue
  \/ EmitToken
  \/ EmitEpilogue
  \/ AllocOk
  \/ AllocFail
  \/ CopyCode
  \/ CallNative
  \/ ExecInstr
  \/ RunReturn

Spec == Init /\ [][Next]_vars

\* two calls whose program strings differ only in spaces and newlines: a
\* string and the same string without them, in either order
InitWs ==
  /\ queue \in {<<p, Strip(p)>> : p \in Strs(Chars, MaxWsLen)}
               \cup {<<Strip(p), p>> : p \in Strs(Chars, MaxWsLen)}
  /\ InitRest

SpecWs == InitWs /\ [][Next]_vars

\* ------------------------------------------------ reference arithmetic
\* The accumulator of the mini-language, computed independently of the
\* processor model: a 64-bit two's complement number as 4 little-endian
\* digits in base 65536.
RefZero == <<0, 0, 0, 0>>
\* carry out of (borrow below) digit k when one is added (subtracted)
RefCarry(a, k) == IF \A m \in 1..k : a[m] = 65535 THEN 1 ELSE 0
RefBorrow(a, k) == IF \A m \in 1..k : a[m] = 0 THEN 1 ELSE 0
RefHigh(x) == IF x >= 32768 THEN 1 ELSE 0
RefInc(a) == <<(a[1] + 1) % 65536,
               (a[2] + RefCarry(a, 1)) % 65536,
               (a[3] + RefCarry(a, 2)) % 65536,
               (a[4] + RefCarry(a, 3)) % 65536>>
RefDec(a) == <<(a[1] + 65535) % 65536,
               (a[2] + 65536 - RefBorrow(a, 1)) % 65536,
               (a[3] + 65536 - RefBorrow(a, 2)) % 65536,
               (a[4] + 65536 - RefBorrow(a, 3)) % 65536>>
RefDouble(a) == <<(2 * a[1]) % 65536,
                  (2 * a[2] + RefHigh(a[1])) % 65536,
                  (2 * a[3] + RefHigh(a[2])) % 65536,
                  (2 * a[4] + RefHigh(a[3])) % 65536>>
RefNeg(a) == RefInc(<<65535 - a[1], 65535 - a[2], 65535 - a[3], 65535 - a[4]>>)
\* unsigned a \div 2
RefShr(a) == <<(a[1] \div 2) + 32768 * (a[2] % 2),
               (a[2] \div 2) + 32768 * (a[3] % 2),
               (a[3] \div 2) + 32768 * (a[4] % 2),
               a[4] \div 2>>
RefIsNeg(a) == a[4] >= 32768
\* a / 2 rounded toward zero
RefHalve(a) == IF RefIsNeg(a) THEN RefNeg(RefShr(RefNeg(a))) ELSE RefShr(a)
\* a / 2 rounded toward minus infinity
RefFloorHalve(a) == <<RefShr(a)[1], RefShr(a)[2], RefShr(a)[3],
                      RefShr(a)[4] + 32768 * RefHigh(a[4])>>

RECURSIVE Interp(_)
\* the accumulator after the opcode characters ops, starting from 0
Interp(ops) ==
  IF ops = <<>> THEN RefZero
  ELSE LET a == Interp(SubSeq(ops, 1, Len(ops) - 1))
           c == ops[Len(ops)]
       IN IF c = "+" THEN RefInc(a)
          ELSE IF c = "-" THEN RefDec(a)
          ELSE IF c = "*" THEN RefDouble(a)
          ELSE RefHalve(a)

\* a word of the processor as a reference number
Limbs(v) == <<v[1] + 256 * v[2], v[3] + 256 * v[4],
              v[5] + 256 * v[6], v[7] + 256 * v[8]>>
\* the opcode characters of a program string, in order
Opcodes(p) == SelectSeq(p, LAMBDA c : c \in OpChars)
Count(p, c) == Len(SelectSeq(p, LAMBDA d : d = c))
HasOther(p) == \E k \in 1..Len(p) : p[k] \notin OpChars \cup Blank
OwnRegions == {k \in 1..Len(regions) : regions[k].owner = cycle}
\* the native call is in progress or has just returned
InCall == pc \in {"exec", "return"}

\* ---------------------------------------------------------------- C1
\* C1: whenever run(jit(program)) has returned, its value is the result
\* of interpreting the opcodes of the program in order on a 64-bit signed
\* accumulator that starts at 0; "++*-/" gives 1, "--**++" gives -6 and
\* "++*******" gives 256.
C1_RunEqualsInterpreter ==
  \A k \in 1..Len(results) :
    LET r == results[k] IN
      /\ Opcodes(r.program) # <<>>
      /\ Limbs(r.value) = Interp(Opcodes(r.program))
      /\ r.program = <<"+", "+", "*", "-", "/">> => ToInt(r.value) = 1
      /\ r.program = <<"-", "-", "*", "*", "+", "+">> => ToInt(r.value) = 0 - 6
      /\ r.program = <<"+", "+">> \o Rep("*", 7) => ToInt(r.value) = 256

C1_Witness ==
  /\ Len(results) = 9
  /\ ToInt(results[9].value) = 0 - 6
  /\ ToInt(results[8].value) = 256

\* ---------------------------------------------------------------- C2
\* C2: when the Halve template runs on a negative odd accumulator v, the
\* accumulator after it is -((-v) div 2): the division truncates toward
\* zero and does not floor, so -3 gives -1 and -1 gives 0.
C2_HalveTruncatesTowardZero ==
  InCall => \A k \in 1..(Len(accTrace) - 1) :
    LET v == accTrace[k]
        w == accTrace[k + 1]
        b == Boundary(tokens, k - 1)
        at(o) == Decode(machine_code, b + o)
    IN (tokens[k] = "Slash" /\ IsNeg(v) /\ v[1] % 2 = 1) =>
         /\ at(0).op = "mov" /\ at(0).dst = RAX /\ at(0).src = RCX
         /\ at(3).op = "movi" /\ at(3).dst = R8 /\ at(3).imm = <<2, 0, 0, 0>>
         /\ at(10).op = "cqo"
         /\ at(12).op = "idiv" /\ at(12).src = R8
         /\ at(15).op = "mov" /\ at(15).dst = RCX /\ at(15).src = RAX
         /\ Limbs(w) = RefNeg(RefShr(RefNeg(Limbs(v))))
         /\ Limbs(w) # RefFloorHalve(Limbs(v))
         /\ ToInt(v) = 0 - 3 => ToInt(w) = 0 - 1
         /\ ToInt(v) = 0 - 1 => ToInt(w) = 0

C2_Witness ==
  InCall /\ \E k \in 1..(Len(accTrace) - 1) :
    /\ tokens[k] = "Slash"
    /\ ToInt(accTrace[k]) = 0 - 3
    /\ ToInt(accTrace[k + 1]) = 0 - 1

\* ---------------------------------------------------------------- C3
FirstOther(p) == CHOOSE k \in 1..Len(p) :
                   /\ p[k] \notin OpChars \cup Blank
                   /\ \A m \in 1..(k - 1) : p[m] \in OpChars \cup Blank

\* C3: a program string with a character other than + - * / space newline
\* never gets past the tokenizer: no byte of machine code is emitted, no
\* executable memory is allocated, no native call is made, and the panic
\* that ends the process names the first such character.
C3_UnknownCharRejectedEarly ==
  /\ HasOther(program) =>
       /\ pc \in {"tokenize", "aborted"}
       /\ machine_code = <<>>
       /\ allocs = 0 /\ calls = 0 /\ memory = 0 /\ OwnRegions = {}
       /\ pc = "aborted" =>
            outcome = [kind |-> "UnknownChar", char |-> program[FirstOther(program)]]
  /\ outcome.kind = "UnknownChar" => pc = "aborted" /\ HasOther(program)
  /\ \A k \in 1..Len(results) : ~HasOther(results[k].program)

C3_Witness ==
  /\ pc = "aborted"
  /\ outcome = [kind |-> "UnknownChar", char |-> "\r"]
  /\ tokens # <<>>
  /\ HasOther(program)

\* ---------------------------------------------------------------- C4
BlankOnly(p) == \A k \in 1..Len(p) : p[k] \in Blank

\* C4: a program string that is empty or all spaces and newlines is
\* rejected by the assertion at the end of tokenization: jit returns no
\* buffer for it (never the prologue+epilogue buffer) and nothing is
\* allocated.
C4_EmptyProgramRejected ==
  /\ (cycle > 0 /\ BlankOnly(program)) =>
       /\ pc \in {"tokenize", "aborted"}
       /\ machine_code = <<>>
       /\ allocs = 0 /\ memory = 0 /\ OwnRegions = {}
       /\ pc = "aborted" =>
            /\ outcome = [kind |-> "AssertEmpty", char |-> ""]
            /\ i = Len(program) + 1
  /\ outcome.kind = "AssertEmpty" => BlankOnly(program)
  /\ \A k \in 1..Len(results) :
       /\ ~BlankOnly(results[k].program)
       /\ results[k].code # <<\h48, \h31, \hc9, \h48, \h89, \hc8, \hc3>>

C4_Witness ==
  /\ pc = "aborted"
  /\ outcome.kind = "AssertEmpty"
  /\ Len(program) = 2

\* ---------------------------------------------------------------- C5
NameOf(c) == IF c = "+" THEN "Plus" ELSE IF c = "-" THEN "Minus"
             ELSE IF c = "*" THEN "Star" ELSE "Slash"
\* the input error of a string without spaces and newlines
RejectionOf(s) ==
  IF \E k \in 1..Len(s) : s[k] \notin OpChars
    THEN [kind |-> "UnknownChar",
          char |-> s[CHOOSE k \in 1..Len(s) :
                       s[k] \notin OpChars /\ \A m \in 1..(k-1) : s[m] \in OpChars]]
  ELSE IF s = <<>> THEN [kind |-> "AssertEmpty", char |-> ""]
  ELSE NoOutcome

\* C5: two program strings that are equal once spaces and newlines are
\* removed give the same instruction buffer and the same result, or are
\* both rejected (with the input error of the stripped string); a space
\* or newline yields no token.
C5_WhitespaceInsensitive ==
  /\ \A k, l \in 1..Len(results) :
       Strip(results[k].program) = Strip(results[l].program) =>
         /\ results[k].code = results[l].code
         /\ results[k].value = results[l].value
  /\ \A k \in 1..Len(results) :
       RejectionOf(Strip(results[k].program)) = NoOutcome
  /\ (pc = "aborted" /\ outcome.kind # "AllocFailed") =>
       outcome = RejectionOf(Strip(program))
  /\ pc = "tokenize" =>
       LET seen == Opcodes(SubSeq(program, 1, i - 1))
       IN tokens = [k \in 1..Len(seen) |-> NameOf(seen[k])]
  /\ pc \in {"alloc", "copy", "call", "exec", "return"} =>
       /\ tokens = [k \in 1..Len(Strip(program)) |-> NameOf(Strip(program)[k])]
       /\ Len(machine_code) <= 7 + 18 * Len(Strip(program))

C5_Witness ==
  /\ Len(results) = 2
  /\ results[1].program # results[2].program
  /\ Len(results[1].program) = 3
  /\ results[1].code = results[2].code
  /\ ToInt(results[2].value) = 2

\* ---------------------------------------------------------------- C6
\* C6: once the pipeline has returned or panicked no executable region is
\* mapped; a region stays mapped until the native call has returned; and
\* the only region ever mapped is the one the current cycle allocated
\* (no region serves two cycles).
C6_RegionReleased ==
  /\ pc \in {"idle", "aborted"} => \A k \in 1..Len(regions) : ~regions[k].mapped
  /\ \A k \in 1..Len(regions) :
       regions[k].mapped => k = memory /\ regions[k].owner = cycle
  /\ pc \in {"copy", "call", "exec", "return"} =>
       /\ memory \in 1..Len(regions)
       /\ regions[memory].mapped
       /\ regions[memory].owner = cycle
  /\ \A k, l \in 1..Len(regions) : k # l => regions[k].owner # regions[l].owner

C6_Witness ==
  /\ pc = "idle"
  /\ queue = <<>>
  /\ Len(regions) = 9
  /\ Len(results) = 9

\* ---------------------------------------------------------------- C7
\* C7: an allocation failure ends the process with its own panic (not an
\* input error; the program was valid) after exactly one allocation
\* attempt, with nothing copied and no native call; a run that returns
\* made exactly one allocation and exactly one native call.
C7_AllocFailureDistinct ==
  /\ allocs <= 1 /\ calls <= 1
  /\ outcome.kind = "AllocFailed" =>
       /\ pc = "aborted"
       /\ allocs = 1 /\ calls = 0 /\ OwnRegions = {} /\ memory = 0
       /\ ~HasOther(program) /\ Opcodes(program) # <<>>
  /\ outcome.kind \in {"UnknownChar", "AssertEmpty"} => allocs = 0 /\ calls = 0
  /\ calls = 1 => allocs = 1 /\ OwnRegions # {}
  /\ (pc = "return" \/ (pc = "idle" /\ cycle > 0)) => calls = 1 /\ allocs = 1
  /\ Len(results) <= cycle

C7_Witness ==
  /\ outcome.kind = "AllocFailed"
  /\ cycle = 2
  /\ Len(results) = 1

\* ---------------------------------------------------------------- C8
\* C8 as amended: the generated function runs straight through; every
\* instruction starts where the previous one ended, none is executed
\* twice, nothing faults, and the final ret is reached after
\* 2 + n + 4 * (number of / opcodes) instructions, n the opcode count.
C8_StraightLineTermination ==
  /\ pc # "fault"
  /\ InCall =>
       \A k \in 1..(Len(trail) - 1) :
         /\ trail[k + 1] = trail[k] + Decode(machine_code, trail[k]).len
         /\ trail[k + 1] > trail[k]
  /\ pc = "return" =>
       /\ Len(trail) - 1 = 2 + Len(tokens) + 4 * Count(tokens, "Slash")
       /\ trail[Len(trail)] = Len(machine_code)

C8_Witness ==
  /\ pc = "return"
  /\ Len(tokens) = 3
  /\ Count(tokens, "Slash") = 2
  /\ Len(trail) = 14

\* C8 as stated: the final ret is reached after n execution steps.
C8_Original ==
  pc = "return" => Len(trail) - 1 = Len(tokens)

\* ---------------------------------------------------------------- C9
Size(c) == IF c = "*" THEN 4 ELSE IF c = "/" THEN 18 ELSE 3
RECURSIVE Off(_, _)
\* offset of the template of the n-th opcode
Off(ops, n) == IF n = 1 THEN 4 ELSE Off(ops, n - 1) + Size(ops[n - 1])

\* C9: the buffer jit returns is the 3-byte prologue, the templates of
\* the opcodes in program order (3 bytes for + and -, 4 for *, 18 for /)
\* and the 4-byte epilogue, nothing else; its length is
\* 7 + 3*(#plus + #minus) + 4*#star + 18*#slash; the one ret executed is
\* its last byte.
C9_BufferLayout ==
  /\ pc \in {"alloc", "copy", "call", "exec", "return"} =>
       LET ops == Opcodes(program)
           mc == machine_code
       IN /\ ops # <<>>
          /\ Len(mc) = 7 + 3 * (Count(program, "+") + Count(program, "-"))
                         + 4 * Count(program, "*") + 18 * Count(program, "/")
          /\ SubSeq(mc, 1, 3) = <<\h48, \h31, \hc9>>
          /\ SubSeq(mc, Len(mc) - 3, Len(mc)) = <<\h48, \h89, \hc8, \hc3>>
          /\ \A n \in 1..Len(ops) :
               SubSeq(mc, Off(ops, n), Off(ops, n) + Size(ops[n]) - 1) =
                 IF ops[n] = "+" THEN <<\h48, \hff, \hc1>>
                 ELSE IF ops[n] = "-" THEN <<\h48, \hff, \hc9>>
                 ELSE IF ops[n] = "*" THEN <<\h48, \h6b, \hc9, \h02>>
                 ELSE <<\h48, \h89, \hc8, \h49, \hc7, \hc0, \h02, \h00, \h00,
                        \h00, \h48, \h99, \h49, \hf7, \hf8, \h48, \h89, \hc1>>
  /\ pc = "return" =>
       /\ Cardinality({k \in 1..Len(trail) :
                         Decode(machine_code, trail[k]).op = "ret"}) = 1
       /\ trail[Len(trail)] = Len(machine_code)

C9_Witness ==
  /\ pc = "return"
  /\ program = MainProgram
  /\ Len(machine_code) = 38

\* --------------------------------------------------------------- C10
MinInt64 == [k \in 1..8 |-> IF k = 8 THEN 128 ELSE 0]
Scratch == {RAX, RCX, RDX, R8}

\* C10: while the generated function executes, only rax, rcx, rdx and r8
\* have been written, every other register (the stack pointer included)
\* holds its value of the entry, the code in memory is unchanged, no
\* instruction faults (idiv always divides by 2), and at the final ret
\* rax equals rcx; the ret pops the return address and nothing else.
C10_FrameAndNoFault ==
  /\ pc # "fault"
  /\ pc = "exec" =>
       /\ written \subseteq Scratch
       /\ \A r \in RegNum \ Scratch : regs[r] = entry[r]
       /\ regions[memory].bytes = machine_code
       /\ LET ins == Decode(regions[memory].bytes, rip)
          IN /\ ins.op = "idiv" => regs[ins.src] = Word(2)
             /\ ins.op = "ret" => regs[RAX] = regs[RCX]
  /\ pc = "return" =>
       /\ regs[RAX] = regs[RCX]
       /\ written \subseteq Scratch \cup {RSP}
       /\ regs[RSP] = AddW(entry[RSP], Word(8))
       /\ \A r \in RegNum \ (Scratch \cup {RSP}) : regs[r] = entry[r]

C10_Witness ==
  /\ pc = "return"
  /\ \E k \in 1..(Len(accTrace) - 1) :
       /\ tokens[k] = "Slash"
       /\ accTrace[k] = MinInt64
       /\ IsNeg(accTrace[k + 1])

====
